---- MODULE Spec2Model ----
(***************************************************************************)
(* Model of the partition staging engine of src/src/lib.rs (struct Device) *)
(* and src/src/partition.rs (struct Partition).                            *)
(*                                                                         *)
(* List indices are the 0-based indices of the source; At(s, i) reads the  *)
(* i-th element of a Vec.  An Option is a sequence of length 0 or 1.  A    *)
(* Rust panic ends the program: the model records it in `panicked` and no  *)
(* operation is enabled afterwards.                                        *)
(***************************************************************************)
EXTENDS Integers, Sequences, FiniteSets, TLC

\* ---- bounds of the model ----
DevLen == 4          \* raw.length(): device length in sectors
MaxLoaded == 3       \* partitions found on the device at load
MaxMutations == 2    \* cap on the number of accepted mutations
MaxCommits == 1      \* cap on the number of commit calls
MaxLoadedCommit == 1 \* partitions found at load in the runs that commit

Names == {"a", "b"}          \* names given to change_partition_name
NewNames == {"b"}            \* names given to new_partition
LoadedName == "a"            \* name of the partitions found at load
FileSystems == {<<>>}        \* Option<FileSystem> given to new_partition
LoadedFs == <<"Ext4">>       \* filesystem of the partitions found at load

\* sectors a caller may pass: sector 0 and one beyond the device included
InSectors == 0..(DevLen + 1)

\* ---- Vec helpers ----
At(s, i) == s[i + 1]
Last(s) == s[Len(s)]
Pop(s) == IF s = <<>> THEN s ELSE SubSeq(s, 1, Len(s) - 1)
InsertAt(s, i, x) == SubSeq(s, 1, i) \o <<x>> \o SubSeq(s, i + 1, Len(s))
RemoveAt(s, i) == SubSeq(s, 1, i) \o SubSeq(s, i + 2, Len(s))

\* ---- src/src/partition.rs ----
from_libparted(b) ==
    [path |-> TRUE, kind |-> "Real", name |-> <<LoadedName, <<>>>>,
     bounds |-> <<b, <<>>>>, fs |-> <<LoadedFs, <<>>>>]

new(name, b, fs) ==
    [path |-> FALSE, kind |-> "Virtual", name |-> <<name, <<>>>>,
     bounds |-> <<b, <<>>>>, fs |-> <<fs, <<>>>>]

name(p) == IF p.name[2] = <<>> THEN p.name[1] ELSE Last(p.name[2])
bounds(p) == IF p.bounds[2] = <<>> THEN p.bounds[1] ELSE Last(p.bounds[2])
fs(p) == IF p.fs[2] = <<>> THEN p.fs[1] ELSE Last(p.fs[2])
start(p) == bounds(p)[1]
end(p) == bounds(p)[2]

\* mutant: pops the latest entry of each history instead of clearing it
Partition_undo_all_changes_PopOne(p) ==
    [p EXCEPT !.name = <<p.name[1], Pop(p.name[2])>>,
              !.bounds = <<p.bounds[1], Pop(p.bounds[2])>>,
              !.fs = <<p.fs[1], Pop(p.fs[2])>>]

Partition_undo_all_changes(p) ==
    [p EXCEPT !.name = <<p.name[1], <<>>>>,
              !.bounds = <<p.bounds[1], <<>>>>,
              !.fs = <<p.fs[1], <<>>>>]

\* ---- src/src/lib.rs: results of the operations ----
Out(tag, change, index) == [tag |-> tag, change |-> change, index |-> index]
Result(parts, chgs, out) == [partitions |-> parts, changes |-> chgs, out |-> out]
Panic(parts, chgs) == Result(parts, chgs, Out("Panic", "", 0 - 1))
Dev(parts, chgs) == [partitions |-> parts, changes |-> chgs]

\* partitions_enum(): the absolute indices of the non-Hidden entries, in order
RECURSIVE partitions_enum_from(_, _)
partitions_enum_from(parts, i) ==
    IF i >= Len(parts) THEN <<>>
    ELSE (IF At(parts, i).kind # "Hidden" THEN <<i>> ELSE <<>>)
         \o partitions_enum_from(parts, i + 1)
partitions_enum(parts) == partitions_enum_from(parts, 0)

\* partitions(): the non-Hidden entries, in order
partitions_of(parts) ==
    LET e == partitions_enum(parts)
    IN [k \in 1..Len(e) |-> At(parts, e[k])]

n_changes(chgs) == Len(chgs)

\* get_public_index: position of the absolute index among the visible
\* entries; -1 stands for the None that the source unwraps
get_public_index(parts, index) ==
    LET e == partitions_enum(parts)
    IN IF \E k \in 1..Len(e) : e[k] = index
       THEN (CHOOSE k \in 1..Len(e) : e[k] = index) - 1
       ELSE 0 - 1

\* an entry of partitions_with_empty(): Either::Left(partition) or
\* Either::Right(range of unused sectors)
Left(p) == [either |-> "Left", partition |-> <<p>>, range |-> <<>>]
Right(s, e) == [either |-> "Right", partition |-> <<>>, range |-> <<s, e>>]

\* the while loop of partitions_with_empty() over the visible entries v, from
\* the k-th on: a gap after each entry whose successor starts more than one
\* sector later; the assert!(right > left) panics
RECURSIVE gaps_from(_, _)
gaps_from(v, k) ==
    IF k >= Len(v) THEN [panic |-> FALSE, list |-> <<Left(v[k])>>]
    ELSE LET left == end(v[k])
             right == start(v[k + 1])
             rest == gaps_from(v, k + 1)
         IN IF ~(right > left) \/ rest.panic THEN [panic |-> TRUE, list |-> <<>>]
            ELSE [panic |-> FALSE,
                  list |-> <<Left(v[k])>>
                           \o (IF right - left > 1 THEN <<Right(left + 1, right - 1)>> ELSE <<>>)
                           \o rest.list]

\* partitions_with_empty(): nothing when no entry is visible; else a leading
\* gap from sector 1, the gaps between the entries, and a trailing gap that
\* starts at the last entry's end sector
partitions_with_empty(parts) ==
    LET v == partitions_of(parts)
    IN IF v = <<>> THEN [panic |-> FALSE, list |-> <<>>]
       ELSE LET lead == IF start(v[1]) > 1 THEN <<Right(1, start(v[1]) - 1)>> ELSE <<>>
                body == gaps_from(v, 1)
                e == end(v[Len(v)])
                trail == IF e < DevLen THEN <<Right(e, DevLen)>> ELSE <<>>
            IN IF body.panic THEN body
               ELSE [panic |-> FALSE, list |-> lead \o body.list \o trail]


\* ---- src/src/lib.rs: Device operations ----

\* a RangeBounds<i64> argument: a start bound and an end bound
Bnd(kind, v) == [kind |-> kind, v |-> v]
StartBounds == {Bnd("Included", v) : v \in InSectors}
               \cup {Bnd("Excluded", 0), Bnd("Unbounded", 0)}
EndBounds == {Bnd("Included", v) : v \in InSectors}
             \cup {Bnd("Excluded", DevLen), Bnd("Unbounded", 0)}


\* the normalisation of new_partition and resize_partition
normalize(rb) ==
    << CASE rb[1].kind = "Included" -> rb[1].v
         [] rb[1].kind = "Excluded" -> rb[1].v + 1
         [] OTHER -> 0,
       CASE rb[2].kind = "Included" -> rb[2].v
         [] rb[2].kind = "Excluded" -> rb[2].v - 1
         [] OTHER -> DevLen >>

\* mutant: renames without logging the change
change_partition_name_Unlogged(d, partition, nw) ==
    IF partition >= Len(d.partitions) THEN Panic(d.partitions, d.changes)
    ELSE Result([d.partitions EXCEPT ![partition + 1].name[2] = Append(@, nw)],
                d.changes,
                Out("Ok", "", 0 - 1))

change_partition_name(d, partition, nw) ==
    IF partition >= Len(d.partitions) THEN Panic(d.partitions, d.changes)
    ELSE Result([d.partitions EXCEPT ![partition + 1].name[2] = Append(@, nw)],
                Append(d.changes, [type |-> "Name", partition |-> partition, new |-> nw]),
                Out("Ok", "", 0 - 1))

\* the search loop of new_partition over partitions_enum().peekable():
\* e is the enumeration, k the 1-based position of the item iter.next() yields
RECURSIVE new_partition_index(_, _, _, _)
new_partition_index(parts, e, k, b) ==
    IF k > Len(e) THEN Out("Ok", "", 0)
    ELSE LET i == e[k]
             p == At(parts, i)
             peek == k < Len(e)
             nxt == At(parts, e[k + 1])
         IN IF end(p) < b[1] /\ peek /\ start(nxt) > b[2]
            THEN Out("Ok", "", i)
            ELSE IF end(p) <= b[1]
            THEN Out("OverlapsExisting", "", i)
            ELSE IF peek /\ start(nxt) <= b[2]
            THEN Out("OverlapsExisting", "", i + 1)
            ELSE new_partition_index(parts, e, k + 1, b)

\* mutant: logs the record before the search, so a rejected call leaves it
new_partition_LogFirst(d, nm, f, rb) ==
    LET b == normalize(rb)
        found == new_partition_index(d.partitions, partitions_enum(d.partitions), 1, b)
        index == found.index
        logged == Append(d.changes, [type |-> "NewPartition", name |-> nm, fs |-> f,
                                     bounds |-> b, index |-> index])
    IN IF found.tag # "Ok" THEN Result(d.partitions, logged, found)
       ELSE Result(InsertAt(d.partitions, index, new(nm, b, f)), logged,
                   Out("Ok", "", 0 - 1))

new_partition(d, nm, f, rb) ==
    LET b == normalize(rb)
        found == new_partition_index(d.partitions, partitions_enum(d.partitions), 1, b)
        index == found.index
    IN IF found.tag # "Ok" THEN Result(d.partitions, d.changes, found)
       ELSE Result(InsertAt(d.partitions, index, new(nm, b, f)),
                   Append(d.changes, [type |-> "NewPartition", name |-> nm, fs |-> f,
                                      bounds |-> b, index |-> index]),
                   Out("Ok", "", 0 - 1))

\* mutant: logs the public index instead of the absolute one
remove_partition_PublicIndex(d, pub) ==
    LET e == partitions_enum(d.partitions)
    IN IF pub >= Len(e) THEN Panic(d.partitions, d.changes)
       ELSE LET index == e[pub + 1]
                virtual == At(d.partitions, index).kind = "Virtual"
                removed == IF virtual THEN <<At(d.partitions, index)>> ELSE <<>>
                parts == IF virtual THEN RemoveAt(d.partitions, index)
                         ELSE [d.partitions EXCEPT ![index + 1].kind = "Hidden"]
            IN Result(parts,
                      Append(d.changes, [type |-> "RemovePartition", index |-> pub,
                                         removed |-> removed]),
                      Out("Ok", "", 0 - 1))

\* mutant: takes the argument as a position in the list, Hidden entries counted
remove_partition_ListPosition(d, pub) ==
    IF pub >= Len(d.partitions) THEN Panic(d.partitions, d.changes)
    ELSE LET index == pub
             virtual == At(d.partitions, index).kind = "Virtual"
             removed == IF virtual THEN <<At(d.partitions, index)>> ELSE <<>>
             parts == IF virtual THEN RemoveAt(d.partitions, index)
                      ELSE [d.partitions EXCEPT ![index + 1].kind = "Hidden"]
         IN Result(parts,
                   Append(d.changes, [type |-> "RemovePartition", index |-> index,
                                      removed |-> removed]),
                   Out("Ok", "", 0 - 1))

remove_partition(d, pub) ==
    LET e == partitions_enum(d.partitions)
    IN IF pub >= Len(e) THEN Panic(d.partitions, d.changes)
       ELSE LET index == e[pub + 1]
                virtual == At(d.partitions, index).kind = "Virtual"
                removed == IF virtual THEN <<At(d.partitions, index)>> ELSE <<>>
                parts == IF virtual THEN RemoveAt(d.partitions, index)
                         ELSE [d.partitions EXCEPT ![index + 1].kind = "Hidden"]
            IN Result(parts,
                      Append(d.changes, [type |-> "RemovePartition", index |-> index,
                                         removed |-> removed]),
                      Out("Ok", "", 0 - 1))

\* mutant: tests the previous neighbour before the device bounds
resize_partition_OverlapFirst(d, pub, rb) ==
    LET b == normalize(rb)
        e == partitions_enum(d.partitions)
    IN IF pub >= Len(e) THEN Panic(d.partitions, d.changes)
       ELSE LET index == e[pub + 1]
            IN IF index # 0 /\ end(At(d.partitions, index - 1)) > b[1]
               THEN Result(d.partitions, d.changes, Out("OverlapsExisting", "", index - 1))
               ELSE IF b[1] < 0 \/ b[2] > DevLen
               THEN Result(d.partitions, d.changes, Out("OutOfBounds", "", 0 - 1))
               ELSE IF index + 1 >= Len(d.partitions)
               THEN Panic(d.partitions, d.changes)
               ELSE IF start(At(d.partitions, index + 1)) < b[2]
               THEN Result(d.partitions, d.changes, Out("OverlapsExisting", "", index + 1))
               ELSE Result([d.partitions EXCEPT ![index + 1].bounds[2] = Append(@, b)],
                           Append(d.changes, [type |-> "ResizePartition", index |-> index,
                                              bounds |-> b]),
                           Out("Ok", "", 0 - 1))

\* mutant: overwrites the base bounds instead of pushing onto the history
resize_partition_Overwrite(d, pub, rb) ==
    LET b == normalize(rb)
        e == partitions_enum(d.partitions)
    IN IF pub >= Len(e) THEN Panic(d.partitions, d.changes)
       ELSE LET index == e[pub + 1]
            IN IF b[1] < 0 \/ b[2] > DevLen
               THEN Result(d.partitions, d.changes, Out("OutOfBounds", "", 0 - 1))
               ELSE IF index # 0 /\ end(At(d.partitions, index - 1)) > b[1]
               THEN Result(d.partitions, d.changes, Out("OverlapsExisting", "", index - 1))
               ELSE IF index + 1 >= Len(d.partitions)
               THEN Panic(d.partitions, d.changes)
               ELSE IF start(At(d.partitions, index + 1)) < b[2]
               THEN Result(d.partitions, d.changes, Out("OverlapsExisting", "", index + 1))
               ELSE Result([d.partitions EXCEPT ![index + 1].bounds = <<b, <<>>>>],
                           Append(d.changes, [type |-> "ResizePartition", index |-> index,
                                              bounds |-> b]),
                           Out("Ok", "", 0 - 1))

resize_partition(d, pub, rb) ==
    LET b == normalize(rb)
        e == partitions_enum(d.partitions)
    IN IF pub >= Len(e) THEN Panic(d.partitions, d.changes)
       ELSE LET index == e[pub + 1]
            IN IF b[1] < 0 \/ b[2] > DevLen
               THEN Result(d.partitions, d.changes, Out("OutOfBounds", "", 0 - 1))
               ELSE IF index # 0 /\ end(At(d.partitions, index - 1)) > b[1]
               THEN Result(d.partitions, d.changes, Out("OverlapsExisting", "", index - 1))
               ELSE IF index + 1 >= Len(d.partitions)
               THEN Panic(d.partitions, d.changes)
               ELSE IF start(At(d.partitions, index + 1)) < b[2]
               THEN Result(d.partitions, d.changes, Out("OverlapsExisting", "", index + 1))
               ELSE Result([d.partitions EXCEPT ![index + 1].bounds[2] = Append(@, b)],
                           Append(d.changes, [type |-> "ResizePartition", index |-> index,
                                              bounds |-> b]),
                           Out("Ok", "", 0 - 1))

\* the value undo_change returns once the list is updated: Some(change) with
\* the public index of the recorded one, a panic when there is none
Undone(parts, chgs, change, index) ==
    IF get_public_index(parts, index) < 0 THEN Panic(parts, chgs)
    ELSE Result(parts, chgs, Out("Some", change, get_public_index(parts, index)))

\* mutant: undoing a rename or a resize clears the whole history
undo_change_ClearHistory(d) ==
    IF d.changes = <<>> THEN Result(d.partitions, d.changes, Out("None", "", 0 - 1))
    ELSE LET c == Last(d.changes)
             rest == Pop(d.changes)
             parts == d.partitions
         IN CASE c.type = "Name" ->
                   IF c.partition >= Len(parts) THEN Panic(parts, rest)
                   ELSE Result([parts EXCEPT ![c.partition + 1].name[2] = <<>>], rest,
                               Out("Some", "Name", c.partition))
              [] c.type = "NewPartition" ->
                   IF c.index >= Len(parts) THEN Panic(parts, rest)
                   ELSE IF At(parts, c.index).kind # "Virtual" THEN Panic(parts, rest)
                   ELSE LET r == remove_partition(Dev(parts, rest), c.index)
                        IN IF r.out.tag = "Panic" THEN r
                           ELSE Undone(r.partitions, r.changes, "RemovePartition", c.index)
              [] c.type = "RemovePartition" ->
                   IF c.removed # <<>>
                   THEN IF c.index > Len(parts) THEN Panic(parts, rest)
                        ELSE Undone(InsertAt(parts, c.index, c.removed[1]), rest,
                                    "RemovePartition", c.index)
                   ELSE IF c.index >= Len(parts) THEN Panic(parts, rest)
                        ELSE IF At(parts, c.index).kind # "Hidden" THEN Panic(parts, rest)
                        ELSE Undone([parts EXCEPT ![c.index + 1].kind = "Real"], rest,
                                    "RemovePartition", c.index)
              [] OTHER ->
                   IF c.index >= Len(parts) THEN Panic(parts, rest)
                   ELSE Undone([parts EXCEPT ![c.index + 1].bounds[2] = <<>>], rest,
                               "ResizePartition", c.index)

\* mutant: unwraps the popped record, so an empty log panics
undo_change_UnwrapPop(d) ==
    IF d.changes = <<>> THEN Panic(d.partitions, d.changes)
    ELSE LET c == Last(d.changes)
             rest == Pop(d.changes)
             parts == d.partitions
         IN CASE c.type = "Name" ->
                   IF c.partition >= Len(parts) THEN Panic(parts, rest)
                   ELSE Result([parts EXCEPT ![c.partition + 1].name[2] = Pop(@)], rest,
                               Out("Some", "Name", c.partition))
              [] c.type = "NewPartition" ->
                   IF c.index >= Len(parts) THEN Panic(parts, rest)
                   ELSE IF At(parts, c.index).kind # "Virtual" THEN Panic(parts, rest)
                   ELSE LET r == remove_partition(Dev(parts, rest), c.index)
                        IN IF r.out.tag = "Panic" THEN r
                           ELSE Undone(r.partitions, r.changes, "RemovePartition", c.index)
              [] c.type = "RemovePartition" ->
                   IF c.removed # <<>>
                   THEN IF c.index > Len(parts) THEN Panic(parts, rest)
                        ELSE Undone(InsertAt(parts, c.index, c.removed[1]), rest,
                                    "RemovePartition", c.index)
                   ELSE IF c.index >= Len(parts) THEN Panic(parts, rest)
                        ELSE IF At(parts, c.index).kind # "Hidden" THEN Panic(parts, rest)
                        ELSE Undone([parts EXCEPT ![c.index + 1].kind = "Real"], rest,
                                    "RemovePartition", c.index)
              [] OTHER ->
                   IF c.index >= Len(parts) THEN Panic(parts, rest)
                   ELSE Undone([parts EXCEPT ![c.index + 1].bounds[2] = Pop(@)], rest,
                               "ResizePartition", c.index)

undo_change(d) ==
    IF d.changes = <<>> THEN Result(d.partitions, d.changes, Out("None", "", 0 - 1))
    ELSE LET c == Last(d.changes)
             rest == Pop(d.changes)
             parts == d.partitions
         IN CASE c.type = "Name" ->
                   IF c.partition >= Len(parts) THEN Panic(parts, rest)
                   ELSE Result([parts EXCEPT ![c.partition + 1].name[2] = Pop(@)], rest,
                               Out("Some", "Name", c.partition))
              [] c.type = "NewPartition" ->
                   IF c.index >= Len(parts) THEN Panic(parts, rest)
                   ELSE IF At(parts, c.index).kind # "Virtual" THEN Panic(parts, rest)
                   ELSE LET r == remove_partition(Dev(parts, rest), c.index)
                        IN IF r.out.tag = "Panic" THEN r
                           ELSE Undone(r.partitions, r.changes, "RemovePartition", c.index)
              [] c.type = "RemovePartition" ->
                   IF c.removed # <<>>
                   THEN IF c.index > Len(parts) THEN Panic(parts, rest)
                        ELSE Undone(InsertAt(parts, c.index, c.removed[1]), rest,
                                    "RemovePartition", c.index)
                   ELSE IF c.index >= Len(parts) THEN Panic(parts, rest)
                        ELSE IF At(parts, c.index).kind # "Hidden" THEN Panic(parts, rest)
                        ELSE Undone([parts EXCEPT ![c.index + 1].kind = "Real"], rest,
                                    "RemovePartition", c.index)
              [] OTHER ->
                   IF c.index >= Len(parts) THEN Panic(parts, rest)
                   ELSE Undone([parts EXCEPT ![c.index + 1].bounds[2] = Pop(@)], rest,
                               "ResizePartition", c.index)

\* retain(|p| p.kind != Virtual)
RECURSIVE retain_not_virtual(_)
retain_not_virtual(parts) ==
    IF parts = <<>> THEN <<>>
    ELSE (IF Head(parts).kind # "Virtual" THEN <<Head(parts)>> ELSE <<>>)
         \o retain_not_virtual(Tail(parts))

\* mutant: leaves the Hidden entries Hidden
undo_all_changes_KeepHidden(d) ==
    LET cleared == [k \in 1..Len(d.partitions) |-> Partition_undo_all_changes(d.partitions[k])]
    IN Result(retain_not_virtual(cleared), <<>>, Out("Ok", "", 0 - 1))

undo_all_changes(d) ==
    LET cleared == [k \in 1..Len(d.partitions) |-> Partition_undo_all_changes(d.partitions[k])]
        kept == retain_not_virtual(cleared)
    IN Result([k \in 1..Len(kept) |->
                  IF kept[k].kind = "Hidden" THEN [kept[k] EXCEPT !.kind = "Real"] ELSE kept[k]],
              <<>>, Out("Ok", "", 0 - 1))

\* the ranges the callers pass: every kind of bound, the normalised range
\* inside InSectors, empty ranges (start = end + 1) included
RangeArgs ==
    {rb \in StartBounds \X EndBounds :
        /\ normalize(rb)[1] \in InSectors
        /\ normalize(rb)[2] \in InSectors
        /\ normalize(rb)[1] <= normalize(rb)[2] + 1}

\* the ranges resize_partition is called with: those, and ranges that start
\* before sector 0
ResizeArgs ==
    RangeArgs \cup {<<Bnd("Included", 0 - 1), Bnd("Included", v)>> : v \in {0, DevLen, DevLen + 1}}

\* ---- the external driver (libparted), as commit uses it ----

\* InnerChange::apply: the driver call a record turns into, with the
\* partition number or position it addresses
apply(c) ==
    CASE c.type = "Name" ->
           [fn |-> "set_name", num |-> c.partition + 1, arg |-> <<c.new>>]
      [] c.type = "NewPartition" ->
           [fn |-> "add_partition", num |-> 0 - 1, arg |-> <<c.name, c.fs, c.bounds>>]
      [] c.type = "RemovePartition" ->
           [fn |-> "remove_partition_by_number", num |-> c.index + 1, arg |-> <<>>]
      [] OTHER ->
           [fn |-> "resize", num |-> c.index,
            arg |-> <<c.bounds[1], c.bounds[2] - c.bounds[1]>>]

\* mutant: replays the log newest record first
commit_NewestFirst(d, r, fail) ==
    LET n == Len(d.changes)
        all == [k \in 1..n |-> apply(d.changes[n + 1 - k])]
    IN IF fail = 0
       THEN [dev |-> Result(d.partitions, d.changes, Out("IoError", "", 0)), raw |-> r]
       ELSE IF fail \in 1..n
       THEN [dev |-> Result(d.partitions, <<>>, Out("IoError", "", fail)),
             raw |-> [r EXCEPT !.calls = SubSeq(all, 1, fail - 1)]]
       ELSE IF fail = n + 1
       THEN [dev |-> Result(d.partitions, <<>>, Out("IoError", "", fail)),
             raw |-> [r EXCEPT !.calls = all]]
       ELSE IF fail = n + 2
       THEN [dev |-> Result(d.partitions, <<>>, Out("IoError", "", fail)),
             raw |-> [r EXCEPT !.calls = all, !.table = @ \o all, !.writes = @ + 1]]
       ELSE [dev |-> Result(d.partitions, <<>>, Out("Ok", "", 0 - 1)),
             raw |-> [r EXCEPT !.calls = all, !.table = @ \o all, !.writes = @ + 1]]

\* mutant: goes on applying the records after one failed
commit_ContinueAfterError(d, r, fail) ==
    LET n == Len(d.changes)
        all == [k \in 1..n |-> apply(d.changes[k])]
    IN IF fail = 0
       THEN [dev |-> Result(d.partitions, d.changes, Out("IoError", "", 0)), raw |-> r]
       ELSE IF fail \in 1..n
       THEN [dev |-> Result(d.partitions, <<>>, Out("IoError", "", fail)),
             raw |-> [r EXCEPT !.calls = all]]
       ELSE IF fail = n + 1
       THEN [dev |-> Result(d.partitions, <<>>, Out("IoError", "", fail)),
             raw |-> [r EXCEPT !.calls = all]]
       ELSE IF fail = n + 2
       THEN [dev |-> Result(d.partitions, <<>>, Out("IoError", "", fail)),
             raw |-> [r EXCEPT !.calls = all, !.table = @ \o all, !.writes = @ + 1]]
       ELSE [dev |-> Result(d.partitions, <<>>, Out("Ok", "", 0 - 1)),
             raw |-> [r EXCEPT !.calls = all, !.table = @ \o all, !.writes = @ + 1]]

\* commit: fail = 0 when Disk::new fails, k in 1..n when applying the k-th
\* record fails, n + 1 when disk.commit() fails before writing, n + 2 when it
\* fails after the table was written, -1 when nothing fails.
\* r.calls: the calls made on the Disk object of the latest commit;
\* r.table: the calls that were written to the device.
\* The driver's own partition table is not part of the state, so the unwraps
\* of apply, which depend on it, are not followed here.
commit(d, r, fail) ==
    LET n == Len(d.changes)
        all == [k \in 1..n |-> apply(d.changes[k])]
    IN IF fail = 0
       THEN [dev |-> Result(d.partitions, d.changes, Out("IoError", "", 0)), raw |-> r]
       ELSE IF fail \in 1..n
       THEN [dev |-> Result(d.partitions, <<>>, Out("IoError", "", fail)),
             raw |-> [r EXCEPT !.calls = SubSeq(all, 1, fail - 1)]]
       ELSE IF fail = n + 1
       THEN [dev |-> Result(d.partitions, <<>>, Out("IoError", "", fail)),
             raw |-> [r EXCEPT !.calls = all]]
       ELSE IF fail = n + 2
       THEN [dev |-> Result(d.partitions, <<>>, Out("IoError", "", fail)),
             raw |-> [r EXCEPT !.calls = all, !.table = @ \o all, !.writes = @ + 1]]
       ELSE [dev |-> Result(d.partitions, <<>>, Out("Ok", "", 0 - 1)),
             raw |-> [r EXCEPT !.calls = all, !.table = @ \o all, !.writes = @ + 1]]

\* ---- src/src/main.rs, src/src/logic.rs: the channel-based application ----
\* The UI thread owns State and sends Actions to the worker thread, which
\* owns the libparted devices and answers with Messages. logic.rs calls the
\* name of a partition its label (temp_label, ChangeLabel), main.rs and ui.rs
\* its name (temp_name, ChangeName): they are one thing here.

NDisks == 2          \* devices libparted finds
MaxNameLen == 1      \* cap on the characters typed into a name
MaxActions == 3      \* cap on the number of State::action calls

\* usize::MAX, what n_changes wraps around to; the largest integer of the
\* model checker stands for 2^64 - 1
usize_MAX == 2147483647

\* KeyCode::Char(c) for the characters the handlers tell apart, and another
KeyChars == {"q", "l", "L", "z", "s", "x"}

\* a PartitionInfo; path and name are Options
PartitionInfo(path, nm) == [path |-> path, name |-> nm]

\* what libparted lists for device i when the program starts: a named
\* partition on device 0, an unnamed one and unallocated space on the others
DeviceParts(i) ==
    IF i = 0 THEN <<PartitionInfo(<<"p">>, <<<<"a">>>>)>>
    ELSE <<PartitionInfo(<<"p">>, <<>>), PartitionInfo(<<>>, <<>>)>>

\* enum Mode
Disks == [kind |-> "Disks", index |-> 0, temp_name |-> <<>>]
Partitions(index, temp) == [kind |-> "Partitions", index |-> index, temp_name |-> temp]

\* enum Action; `on` is not in the source: the device the UI showed when the
\* action was sent
Action(type, index, partition, previous, nw, on) ==
    [type |-> type, index |-> index, partition |-> partition,
     previous_name |-> previous, new_name |-> nw, on |-> on]
GetDevices == Action("GetDevices", 0, 0, <<>>, <<>>, 0)
SetDisk(i) == Action("SetDisk", i, 0, <<>>, <<>>, i)
ChangeName(partition, previous, nw, on) == Action("ChangeName", 0, partition, previous, nw, on)
Undo(on) == Action("Undo", 0, 0, <<>>, <<>>, on)
CommitAction(on) == Action("Commit", 0, 0, <<>>, <<>>, on)

\* enum Message
Message(type, n, parts) == [type |-> type, n |-> n, parts |-> parts]

\* what a handler of the UI thread yields: the State, the Actions sent, and
\* "none", "quit" (Task::Quit), "panic" or "underflow" (n_changes -= 1 at 0)
Handled(st, sent, out) == [state |-> st, sent |-> sent, out |-> out]

\* mutant: Commit leaves the counter of pending changes as it is
State_action_CommitKeepsCount(st, a) ==
    CASE a.type \in {"GetDevices", "SetDisk"} -> Handled(st, <<a>>, "none")
      [] a.type = "Undo" ->
           Handled([st EXCEPT !.n_changes = @ - 1], <<a>>,
                   IF st.n_changes = 0 THEN "underflow" ELSE "none")
      [] a.type = "Commit" -> Handled(st, <<a>>, "none")
      [] OTHER -> Handled([st EXCEPT !.n_changes = @ + 1], <<a>>, "none")

\* State::action
State_action(st, a) ==
    CASE a.type \in {"GetDevices", "SetDisk"} -> Handled(st, <<a>>, "none")
      [] a.type = "Undo" ->
           Handled([st EXCEPT !.n_changes = @ - 1], <<a>>,
                   IF st.n_changes = 0 THEN "underflow" ELSE "none")
      [] a.type = "Commit" -> Handled([st EXCEPT !.n_changes = 0], <<a>>, "none")
      [] OTHER -> Handled([st EXCEPT !.n_changes = @ + 1], <<a>>, "none")

\* the rows of the table the view draws
Rows(st) == IF st.mode.kind = "Disks" THEN st.devices ELSE Len(st.partitions)

\* table.scroll_up_by(1), table.scroll_down_by(1); the table widget keeps the
\* selection on a row when it draws
scroll_up(st) == [st EXCEPT !.table = IF @ > 0 THEN @ - 1 ELSE 0]
scroll_down(st) == [st EXCEPT !.table = IF @ + 1 < Rows(st) THEN @ + 1 ELSE @]

\* a key event: its code and whether Ctrl is held
Key(code, ctrl) == [code |-> code, ctrl |-> ctrl]

\* update_disks
update_disks(st, key) ==
    CASE key.code \in {"q", "Esc"} -> Handled(st, <<>>, "quit")
      [] key.code = "Up" -> Handled(scroll_up(st), <<>>, "none")
      [] key.code = "Down" -> Handled(scroll_down(st), <<>>, "none")
      [] key.code = "Enter" ->
           LET r == State_action(st, SetDisk(st.table))
           IN Handled([r.state EXCEPT !.mode = Partitions(st.table, <<>>)], r.sent, r.out)
      [] OTHER -> Handled(st, <<>>, "none")

\* mutant: Ctrl+z sends Undo whatever the number of pending changes
update_partitions_UngatedUndo(st, key) ==
    LET temp == st.mode.temp_name
        index == st.mode.index
        selected == st.table
        editing == temp # <<>>
    IN IF editing /\ key.code \in KeyChars
       THEN Handled([st EXCEPT !.mode.temp_name = <<Append(temp[1], key.code)>>], <<>>, "none")
       ELSE CASE key.code = "Esc" ->
                   IF editing THEN Handled([st EXCEPT !.mode.temp_name = <<>>], <<>>, "none")
                   ELSE Handled([st EXCEPT !.table = index, !.mode = Disks,
                                           !.partitions = <<>>], <<>>, "none")
              [] key.code = "q" -> Handled(st, <<>>, "quit")
              [] key.code = "Up" /\ ~editing -> Handled(scroll_up(st), <<>>, "none")
              [] key.code = "Down" /\ ~editing -> Handled(scroll_down(st), <<>>, "none")
              [] key.code = "Backspace" ->
                   IF editing /\ temp[1] # <<>>
                   THEN Handled([st EXCEPT !.mode.temp_name = <<Pop(temp[1])>>], <<>>, "none")
                   ELSE Handled(st, <<>>, "none")
              [] key.code \in {"l", "L"} ->
                   IF editing THEN Handled(st, <<>>, "none")
                   ELSE IF selected >= Len(st.partitions) THEN Handled(st, <<>>, "panic")
                   ELSE IF At(st.partitions, selected).path = <<>> THEN Handled(st, <<>>, "none")
                   ELSE Handled([st EXCEPT !.mode.temp_name =
                                     IF key.code = "l" THEN At(st.partitions, selected).name
                                     ELSE <<<<>>>>], <<>>, "none")
              [] key.code = "Enter" ->
                   IF ~editing THEN Handled(st, <<>>, "none")
                   ELSE IF selected >= Len(st.partitions) THEN Handled(st, <<>>, "panic")
                   ELSE LET r == State_action([st EXCEPT !.mode.temp_name = <<>>],
                                              ChangeName(selected,
                                                         At(st.partitions, selected).name,
                                                         temp[1], index))
                        IN Handled([r.state EXCEPT !.partitions[selected + 1].name = temp],
                                   r.sent, r.out)
              [] key.code = "z" /\ key.ctrl -> State_action(st, Undo(index))
              [] key.code = "s" /\ key.ctrl /\ st.n_changes > 0 ->
                   State_action(st, CommitAction(index))
              [] OTHER -> Handled(st, <<>>, "none")

\* update_partitions
update_partitions(st, key) ==
    LET temp == st.mode.temp_name
        index == st.mode.index
        selected == st.table
        editing == temp # <<>>
    IN IF editing /\ key.code \in KeyChars
       THEN Handled([st EXCEPT !.mode.temp_name = <<Append(temp[1], key.code)>>], <<>>, "none")
       ELSE CASE key.code = "Esc" ->
                   IF editing THEN Handled([st EXCEPT !.mode.temp_name = <<>>], <<>>, "none")
                   ELSE Handled([st EXCEPT !.table = index, !.mode = Disks,
                                           !.partitions = <<>>], <<>>, "none")
              [] key.code = "q" -> Handled(st, <<>>, "quit")
              [] key.code = "Up" /\ ~editing -> Handled(scroll_up(st), <<>>, "none")
              [] key.code = "Down" /\ ~editing -> Handled(scroll_down(st), <<>>, "none")
              [] key.code = "Backspace" ->
                   IF editing /\ temp[1] # <<>>
                   THEN Handled([st EXCEPT !.mode.temp_name = <<Pop(temp[1])>>], <<>>, "none")
                   ELSE Handled(st, <<>>, "none")
              [] key.code \in {"l", "L"} ->
                   IF editing THEN Handled(st, <<>>, "none")
                   ELSE IF selected >= Len(st.partitions) THEN Handled(st, <<>>, "panic")
                   ELSE IF At(st.partitions, selected).path = <<>> THEN Handled(st, <<>>, "none")
                   ELSE Handled([st EXCEPT !.mode.temp_name =
                                     IF key.code = "l" THEN At(st.partitions, selected).name
                                     ELSE <<<<>>>>], <<>>, "none")
              [] key.code = "Enter" ->
                   IF ~editing THEN Handled(st, <<>>, "none")
                   ELSE IF selected >= Len(st.partitions) THEN Handled(st, <<>>, "panic")
                   ELSE LET r == State_action([st EXCEPT !.mode.temp_name = <<>>],
                                              ChangeName(selected,
                                                         At(st.partitions, selected).name,
                                                         temp[1], index))
                        IN Handled([r.state EXCEPT !.partitions[selected + 1].name = temp],
                                   r.sent, r.out)
              [] key.code = "z" /\ key.ctrl /\ st.n_changes > 0 ->
                   State_action(st, Undo(index))
              [] key.code = "s" /\ key.ctrl /\ st.n_changes > 0 ->
                   State_action(st, CommitAction(index))
              [] OTHER -> Handled(st, <<>>, "none")

\* update, for a terminal event
update_key(st, key) ==
    IF st.mode.kind = "Disks" THEN update_disks(st, key) ELSE update_partitions(st, key)

\* update, for a Message of the worker
update_message(st, m) ==
    CASE m.type = "Devices" -> Handled([st EXCEPT !.devices = m.n, !.table = 0], <<>>, "none")
      [] m.type = "Partitions" ->
           Handled([st EXCEPT !.partitions = m.parts, !.table = 0], <<>>, "none")
      [] OTHER -> Handled(st, <<>>, "panic")

\* what the worker's loop body yields: its changes and disk, the devices,
\* the Messages sent, whether it panicked
Worked(w, devs, msgs, panic) == [worker |-> w, devices |-> devs, msgs |-> msgs, panic |-> panic]

\* set_name on the partition the open Disk numbers `partition`, for the arms
\* ChangeName and Undo: io.found, whether get_partition finds one; io.ok,
\* whether the driver call succeeds. The partition numbered n is taken to be
\* the n-th listed.
worker_set_name(w, devs, partition, nm, io) ==
    IF w.disk = <<>> \/ ~io.found \/ partition >= Len(w.disk[1].parts)
    THEN Worked(w, devs, <<>>, TRUE)
    ELSE IF ~io.ok THEN Worked(w, devs, <<Message("Error", 0, <<>>)>>, FALSE)
    ELSE Worked([w EXCEPT !.disk[1].parts[partition + 1].name = <<nm>>,
                          !.disk[1].named = @ \cup {partition}],
                devs, <<>>, FALSE)

\* the body of the worker's loop for one received Action
worker_receive(w, devs, a, io) ==
    LET pushed == IF a.type \in {"Undo", "GetDevices", "SetDisk"} THEN w
                  ELSE [w EXCEPT !.changes = Append(@, a)]
    IN CASE a.type = "GetDevices" ->
              Worked([pushed EXCEPT !.disk = <<>>], devs,
                     <<Message("Devices", Len(devs), <<>>)>>, FALSE)
         [] a.type = "SetDisk" ->
              IF a.index >= Len(devs) THEN Worked([pushed EXCEPT !.disk = <<>>], devs, <<>>, TRUE)
              ELSE IF io.ok
              THEN Worked([pushed EXCEPT !.disk = <<[index |-> a.index,
                                                     parts |-> At(devs, a.index),
                                                     named |-> {}]>>],
                          devs, <<Message("Partitions", 0, At(devs, a.index))>>, FALSE)
              ELSE Worked([pushed EXCEPT !.disk = <<>>], devs,
                          <<Message("Error", 0, <<>>)>>, FALSE)
         [] a.type = "ChangeName" ->
              worker_set_name(pushed, devs, a.partition, a.new_name, io)
         [] a.type = "Undo" ->
              IF w.changes = <<>> THEN Worked(w, devs, <<>>, FALSE)
              ELSE LET popped == Last(w.changes)
                       rest == [w EXCEPT !.changes = Pop(@)]
                   IN IF popped.type # "ChangeName" THEN Worked(rest, devs, <<>>, FALSE)
                      ELSE worker_set_name(rest, devs, popped.partition,
                                           IF popped.previous_name = <<>> THEN <<>>
                                           ELSE popped.previous_name[1], io)
         [] OTHER ->
              LET cleared == [pushed EXCEPT !.changes = <<>>]
              IN IF cleared.disk = <<>> \/ ~io.ok THEN Worked(cleared, devs, <<>>, TRUE)
                 ELSE Worked(cleared,
                             [devs EXCEPT ![cleared.disk[1].index + 1] = cleared.disk[1].parts],
                             <<>>, FALSE)

\* ---- src/src/tui: the terminal interface over Device ----
\* One device is listed. The device table, the pane of the selected
\* partition and the text input are the State of src/src/tui/main.rs; the
\* handlers are those of src/src/tui/logic.rs and the draw is src/src/tui/ui.rs.

MaxInput == 1        \* cap on the characters of the text input
MaxMounted == 1      \* partitions that are mounted when the device is loaded
MaxKeys == 7         \* cap on the number of key events of a run

\* the rows of the pane: name, preceding space, size, and Submit for a new
\* partition
NAME_CELL == 0
PRECEDING_CELL == 1
SIZE_CELL == 2
SUBMIT_CELL == 3

\* the character the model types into the input besides 'q', and the
\* decimal digits
TypedChars == {"1"}
Digits == <<"0", "1", "2", "3", "4", "5", "6", "7", "8", "9">>

\* the text of an input as a String
RECURSIVE Text(_)
Text(s) == IF s = <<>> THEN "" ELSE s[1] \o Text(Tail(s))

\* Input::new(name): the characters of a name; a name is one character here
Chars(nm) == IF nm = "" THEN <<>> ELSE <<nm>>

\* format!("{:#.10}", bytes): a quantity is written as its number of
\* sectors, one digit; what a negative difference cast to u64 gives is not a
\* digit
SectorText(n) == IF n \in 0..(Len(Digits) - 1) THEN <<Digits[n + 1]>> ELSE <<"?">>

\* input.value().parse::<Byte>() divided by the sector size: the number
\* the digits spell, nothing (Err) for an empty text or any other character
RECURSIVE ParseByte(_)
ParseByte(s) ==
    IF s = <<>> THEN <<>>
    ELSE LET d == {n \in 1..Len(Digits) : Digits[n] = Last(s)}
             rest == ParseByte(Pop(s))
         IN IF d = {} \/ (Len(s) > 1 /\ rest = <<>>) THEN <<>>
            ELSE <<(CHOOSE n \in d : TRUE) - 1 + (IF Len(s) > 1 THEN 10 * rest[1] ELSE 0)>>

\* Partition::mounted: mount_point is what get_mounts had for the path of
\* the partition when it was loaded; mnts holds the loaded bounds of the
\* partitions that had a mount point
mounted(p, mnts) == p.path /\ p.bounds[1] \in mnts

\* a RangeInclusive<i64> as a RangeBounds argument
RangeInclusive(s, e) == <<Bnd("Included", s), Bnd("Included", e)>>

\* struct NewPartition
NewPartitionForm(nm, b) == [name |-> nm, fs |-> <<"Ext4">>, bounds |-> b]

\* State.selected_partition: the row of an existing partition (Left) or the
\* form of a new one (Right), and the selected row of the pane's table
Pane(either, partition, form, cell) ==
    [either |-> either, partition |-> partition, new |-> form, cell |-> cell]

\* what a handler yields: the State, the Device, "none", "quit", "panic" or
\* "overflow" (a negative number of sectors cast to u64 and multiplied by
\* the sector size), whether the view is drawn, and the calls made on the
\* Device with the partition each one addressed
TuiHandled(st, d, out, redraw, calls) ==
    [state |-> st, dev |-> d, out |-> out, redraw |-> redraw, calls |-> calls]
Call(fn, target, out) == [fn |-> fn, target |-> target, out |-> out]

\* State::real_partition_index over the rows partitions_with_empty yields
real_partition_index(list, partition) ==
    LET n == IF partition < Len(list) THEN partition ELSE Len(list)
    IN partition - Cardinality({k \in 1..n : list[k].either = "Right"})

\* get_preceding, in sectors
get_preceding(parts, b) ==
    LET v == partitions_of(parts)
        after == {k \in 1..Len(v) : end(v[k]) > b[1]}
        next_index == IF after = {} THEN Len(v) - 1
                      ELSE (CHOOSE k \in after : \A j \in after : k <= j) - 1
        prev_index == next_index - 1
    IN IF prev_index < 0 THEN 0 ELSE b[1] - end(v[prev_index + 1]) - 1

\* update_devices
update_devices(st, d, key) ==
    CASE key.code = "Esc" -> TuiHandled(st, d, "quit", FALSE, <<>>)
      [] key.code = "Enter" ->
           TuiHandled([st EXCEPT !.selected_device = <<st.table>>, !.table = 0],
                      d, "none", TRUE, <<>>)
      [] OTHER -> TuiHandled(st, d, "none", FALSE, <<>>)

\* update_device
update_device(st, d, mnts, key) ==
    LET pwe == partitions_with_empty(d.partitions)
        index == st.table
        offset == index - real_partition_index(pwe.list, index)
    IN IF pwe.panic \/ index >= Len(pwe.list) THEN TuiHandled(st, d, "panic", FALSE, <<>>)
       ELSE LET sel == At(pwe.list, index)
                editable == sel.either = "Left" /\ ~mounted(sel.partition[1], mnts)
            IN CASE key.code = "Esc" ->
                      TuiHandled([st EXCEPT !.table = st.selected_device[1],
                                            !.selected_device = <<>>], d, "none", TRUE, <<>>)
                 [] key.code = "Enter" /\ editable ->
                      TuiHandled([st EXCEPT !.selected_partition =
                                      <<Pane("Left", index, NewPartitionForm("", <<0, 0>>), 0)>>],
                                 d, "none", TRUE, <<>>)
                 [] key.code = "Enter" /\ ~editable ->
                      IF sel.either # "Right" THEN TuiHandled(st, d, "none", FALSE, <<>>)
                      ELSE TuiHandled([st EXCEPT !.selected_partition =
                                           <<Pane("Right", 0, NewPartitionForm("", sel.range), 0)>>],
                                      d, "none", TRUE, <<>>)
                 [] key.code = "Delete" /\ editable ->
                      LET r == remove_partition(d, index - offset)
                      IN TuiHandled(st, Dev(r.partitions, r.changes),
                                    IF r.out.tag = "Panic" THEN "panic" ELSE "none", TRUE,
                                    <<Call("remove_partition",
                                           partitions_of(d.partitions)[index - offset + 1],
                                           r.out)>>)
                 [] OTHER -> TuiHandled(st, d, "none", FALSE, <<>>)

\* update_partition, key Enter while the input is open: the value is applied
\* to the selected row of the pane
apply_input(st, d, pane) ==
    LET keep(s, p) == [s EXCEPT !.selected_partition = <<p>>]
        pwe == partitions_with_empty(d.partitions)
        real == real_partition_index(pwe.list, pane.partition)
        v == partitions_of(d.partitions)
        parsed == ParseByte(st.input[1])
        done == [st EXCEPT !.input = <<>>]
    IN CASE pane.cell = NAME_CELL ->
              IF pane.either = "Right"
              THEN TuiHandled(keep(done, [pane EXCEPT !.new.name = Text(st.input[1])]),
                              d, "none", TRUE, <<>>)
              ELSE IF pwe.panic THEN TuiHandled(st, d, "panic", FALSE, <<>>)
              ELSE LET r == change_partition_name(d, real, Text(st.input[1]))
                   IN IF r.out.tag = "Panic" THEN TuiHandled(st, d, "panic", FALSE, <<>>)
                      ELSE TuiHandled(keep(done, pane), Dev(r.partitions, r.changes), "none",
                                      TRUE, <<Call("change_partition_name",
                                                   At(d.partitions, real), r.out)>>)
         [] pane.cell = PRECEDING_CELL ->
              IF parsed = <<>> THEN TuiHandled(keep(st, pane), d, "none", FALSE, <<>>)
              ELSE IF pane.either = "Right"
              THEN TuiHandled(keep(done, [pane EXCEPT !.new.bounds[1] = @ + parsed[1]]),
                              d, "none", TRUE, <<>>)
              ELSE IF pwe.panic \/ real >= Len(v) THEN TuiHandled(st, d, "panic", FALSE, <<>>)
              ELSE LET prev == bounds(v[real + 1])
                       new_start == prev[1] + parsed[1]
                       r == resize_partition(d, real, RangeInclusive(new_start, prev[2]))
                   IN IF new_start = prev[1] THEN TuiHandled(keep(done, pane), d, "none", TRUE, <<>>)
                      ELSE IF r.out.tag # "Ok"
                      THEN TuiHandled(st, d, "panic", FALSE,
                                      <<Call("resize_partition", v[real + 1], r.out)>>)
                      ELSE TuiHandled(keep([done EXCEPT !.table = @ + 1],
                                           [pane EXCEPT !.partition = @ + 1]),
                                      Dev(r.partitions, r.changes), "none", TRUE,
                                      <<Call("resize_partition", v[real + 1], r.out)>>)
         [] pane.cell = SIZE_CELL ->
              IF parsed = <<>> THEN TuiHandled(keep(st, pane), d, "none", FALSE, <<>>)
              ELSE IF pane.either = "Right"
              THEN TuiHandled(keep(done, [pane EXCEPT !.new.bounds[1] = parsed[1]]),
                              d, "none", TRUE, <<>>)
              ELSE IF pwe.panic \/ real >= Len(v) THEN TuiHandled(st, d, "panic", FALSE, <<>>)
              ELSE LET s == start(v[real + 1])
                       r == resize_partition(d, real, RangeInclusive(s, s + parsed[1]))
                   IN IF r.out.tag # "Ok"
                      THEN TuiHandled(st, d, "panic", FALSE,
                                      <<Call("resize_partition", v[real + 1], r.out)>>)
                      ELSE TuiHandled(keep(done, pane), Dev(r.partitions, r.changes), "none",
                                      TRUE, <<Call("resize_partition", v[real + 1], r.out)>>)
         [] OTHER -> TuiHandled(keep(done, pane), d, "none", TRUE, <<>>)

\* update_partition, key Enter while no input is open: the input is opened
\* on the selected row of the pane, or the new partition is submitted
open_input(st, d, pane) ==
    LET keep(s, p) == [s EXCEPT !.selected_partition = <<p>>]
        pwe == partitions_with_empty(d.partitions)
        real == real_partition_index(pwe.list, pane.partition)
        v == partitions_of(d.partitions)
        gone == pane.either = "Left" /\ (pwe.panic \/ real >= Len(v))
        b == IF pane.either = "Left" THEN bounds(v[real + 1]) ELSE pane.new.bounds
    IN CASE pane.cell = NAME_CELL ->
              IF gone THEN TuiHandled(st, d, "panic", FALSE, <<>>)
              ELSE TuiHandled(keep([st EXCEPT !.input =
                                       <<Chars(IF pane.either = "Left" THEN name(v[real + 1])
                                               ELSE pane.new.name)>>], pane),
                              d, "none", TRUE, <<>>)
         [] pane.cell = PRECEDING_CELL ->
              IF gone THEN TuiHandled(st, d, "panic", FALSE, <<>>)
              ELSE TuiHandled(keep([st EXCEPT !.input =
                                       <<SectorText(get_preceding(d.partitions, b))>>], pane),
                              d, IF get_preceding(d.partitions, b) < 0 THEN "overflow" ELSE "none",
                              TRUE, <<>>)
         [] pane.cell = SIZE_CELL ->
              IF gone THEN TuiHandled(st, d, "panic", FALSE, <<>>)
              ELSE TuiHandled(keep([st EXCEPT !.input = <<SectorText(b[2] - b[1])>>], pane),
                              d, IF b[2] - b[1] < 0 THEN "overflow" ELSE "none", TRUE, <<>>)
         [] pane.cell = SUBMIT_CELL ->
              IF pane.either = "Left" THEN TuiHandled(keep(st, pane), d, "none", TRUE, <<>>)
              ELSE LET r == new_partition(d, pane.new.name, pane.new.fs, RangeInclusive(pane.new.bounds[1], pane.new.bounds[2]))
                   IN TuiHandled(st, Dev(r.partitions, r.changes),
                                 IF r.out.tag = "Ok" THEN "none" ELSE "panic", TRUE,
                                 <<Call("new_partition", new(pane.new.name, pane.new.bounds,
                                                             pane.new.fs), r.out)>>)
         [] OTHER -> TuiHandled(st, d, "panic", FALSE, <<>>)

\* update_partition: st is the State after selected_partition.take()
update_partition(st, d, pane, key) ==
    LET keep(s, p) == [s EXCEPT !.selected_partition = <<p>>]
    IN CASE key.code = "Esc" ->
              IF st.input # <<>>
              THEN TuiHandled(keep([st EXCEPT !.input = <<>>], pane), d, "none", TRUE, <<>>)
              ELSE TuiHandled([st EXCEPT !.table = IF pane.either = "Left"
                                                   THEN pane.partition ELSE @],
                              d, "none", TRUE, <<>>)
         [] key.code = "Enter" ->
              IF st.input # <<>> THEN apply_input(st, d, pane) ELSE open_input(st, d, pane)
         [] OTHER ->
              IF st.input = <<>> THEN TuiHandled(keep(st, pane), d, "none", FALSE, <<>>)
              ELSE IF key.code = "Backspace"
              THEN TuiHandled(keep([st EXCEPT !.input = <<Pop(@[1])>>], pane), d, "none",
                              st.input[1] # <<>>, <<>>)
              ELSE IF key.code \in TypedChars \cup {"q"} /\ ~key.ctrl
              THEN TuiHandled(keep([st EXCEPT !.input = <<Append(@[1], key.code)>>], pane),
                              d, "none", TRUE, <<>>)
              ELSE TuiHandled(keep(st, pane), d, "none", FALSE, <<>>)

\* update of src/src/tui/logic.rs
tui_update(st, d, mnts, key) ==
    LET pane == st.selected_partition
    IN CASE key.code = "Up" ->
              TuiHandled(IF pane # <<>>
                         THEN [st EXCEPT !.selected_partition[1].cell = IF @ > 0 THEN @ - 1 ELSE 0]
                         ELSE [st EXCEPT !.table = IF @ > 0 THEN @ - 1 ELSE 0],
                         d, "none", TRUE, <<>>)
         [] key.code = "Down" ->
              TuiHandled(IF pane # <<>>
                         THEN [st EXCEPT !.selected_partition[1].cell = @ + 1]
                         ELSE [st EXCEPT !.table = @ + 1],
                         d, "none", TRUE, <<>>)
         [] key.code = "q" /\ ~key.ctrl /\ st.input = <<>> -> TuiHandled(st, d, "quit", FALSE, <<>>)
         [] key.code = "z" /\ key.ctrl ->
              IF st.input # <<>> \/ st.selected_device = <<>>
              THEN TuiHandled(st, d, "none", TRUE, <<>>)
              ELSE LET r == undo_change(d)
                       after == Dev(r.partitions, r.changes)
                       v == partitions_of(r.partitions)
                       pwe == partitions_with_empty(r.partitions)
                       undone == Call("undo_change", <<>>, r.out)
                   IN IF r.out.tag = "Panic" THEN TuiHandled(st, d, "panic", FALSE, <<undone>>)
                      ELSE IF r.out.tag # "Some" \/ r.out.change # "ResizePartition"
                      THEN TuiHandled(st, after, "none", TRUE, <<undone>>)
                      ELSE IF ~(Last(d.changes).bounds[1] > start(v[r.out.index + 1]))
                      THEN TuiHandled(st, after, "none", TRUE, <<undone>>)
                      ELSE IF pwe.panic THEN TuiHandled(st, after, "panic", FALSE, <<undone>>)
                      ELSE IF real_partition_index(pwe.list, st.table) = r.out.index + 1
                              /\ pane # <<>> /\ pane[1].either = "Left"
                      THEN TuiHandled([st EXCEPT !.table = IF @ > 0 THEN @ - 1 ELSE 0,
                                                 !.selected_partition[1].partition = @ - 1],
                                      after, "none", TRUE, <<undone>>)
                      ELSE TuiHandled(st, after, "none", TRUE, <<undone>>)
         [] OTHER ->
              IF pane # <<>>
              THEN update_partition([st EXCEPT !.selected_partition = <<>>], d, pane[1], key)
              ELSE IF st.selected_device # <<>> THEN update_device(st, d, mnts, key)
              ELSE update_devices(st, d, key)

\* view of src/src/tui/ui.rs, for what it does to the State: the tables keep
\* their selection on a row when they are drawn; the panics are those of
\* view_device and view_partition; overflow: a size or a preceding space
\* that is drawn is negative
tui_view(st, d) ==
    IF st.selected_device = <<>>
    THEN [state |-> [st EXCEPT !.table = 0], panic |-> FALSE, overflow |-> FALSE]
    ELSE LET pwe == partitions_with_empty(d.partitions)
             v == partitions_of(d.partitions)
             n == Len(pwe.list)
             row == IF st.table < n THEN st.table ELSE n - 1
             pane == st.selected_partition
             sizes == \E k \in 1..Len(v) : end(v[k]) < start(v[k])
         IN IF pwe.panic \/ n = 0 THEN [state |-> st, panic |-> TRUE, overflow |-> FALSE]
            ELSE IF pane = <<>>
            THEN [state |-> [st EXCEPT !.table = row], panic |-> FALSE, overflow |-> sizes]
            ELSE IF pane[1].either = "Left"
                    /\ (pane[1].partition >= n \/ At(pwe.list, pane[1].partition).either # "Left")
            THEN [state |-> st, panic |-> TRUE, overflow |-> FALSE]
            ELSE LET rows == IF pane[1].either = "Right" THEN 4 ELSE 3
                     b == IF pane[1].either = "Right" THEN pane[1].new.bounds
                          ELSE bounds(At(pwe.list, pane[1].partition).partition[1])
                 IN [state |-> [st EXCEPT !.table = row,
                                          !.selected_partition[1].cell =
                                              IF @ < rows THEN @ ELSE rows - 1],
                     panic |-> FALSE,
                     overflow |-> sizes \/ b[2] < b[1] \/ get_preceding(d.partitions, b) < 0]

\* ---- the state machine ----
VARIABLES
    partitions,   \* Device.partitions
    changes,      \* Device.changes
    raw,          \* the driver behind Device.raw
    panicked,     \* a panic ended the program
    loaded,       \* the partitions as from_libparted loaded them
    commits,      \* number of commit calls so far
    mutations,    \* number of accepted mutations so far
    onlyMutations, \* no call but accepted mutations was made since the load
    last,         \* the latest call and what it returned
    prevOp,       \* the call before the latest
    state,        \* the application's State (UI thread)
    tx_actions,   \* the Actions sent and not yet received by the worker
    tx_messages,  \* the Messages sent and not yet handled by update
    worker,       \* the worker's changes and open Disk
    devices,      \* the partitions of each device as they are on disk
    run,          \* "running", "quit" after Task::Quit, "panic"
    sends,        \* number of State::action calls so far
    tui,          \* the State of the terminal interface (src/src/tui)
    mounts,       \* the loaded bounds of the partitions that are mounted
    keys          \* number of key events the terminal interface has handled

vars == <<partitions, changes, raw, panicked, loaded, commits, mutations, onlyMutations,
          last, prevOp, state, tx_actions, tx_messages, worker, devices, run, sends,
          tui, mounts, keys>>

appVars == <<state, tx_actions, tx_messages, worker, devices, run, sends>>
devVars == <<partitions, changes, raw, panicked, loaded, commits, mutations, onlyMutations,
             last, prevOp>>
tuiVars == <<tui, mounts, keys>>

\* main of src/src/tui/main.rs: `specified` is the index of the device given
\* on the command line, -1 when none is given
TuiStart(specified) ==
    /\ tui = [table |-> 0,
              selected_device |-> IF specified < 0 THEN <<>> ELSE <<specified>>,
              selected_partition |-> <<>>,
              input |-> <<>>]
    /\ keys = 0

\* main and the start of worker: `specified` is the index of the device
\* given on the command line, -1 when none is given
AppStart(specified) ==
    /\ state = [table |-> 0,
                mode |-> IF specified < 0 THEN Disks ELSE Partitions(specified, <<>>),
                devices |-> 0, partitions |-> <<>>, n_changes |-> 0]
    /\ tx_actions = <<GetDevices>> \o (IF specified < 0 THEN <<>> ELSE <<SetDisk(specified)>>)
    /\ tx_messages = <<>>
    /\ worker = [changes |-> <<>>, disk |-> <<>>]
    /\ devices = [i \in 1..NDisks |-> DeviceParts(i - 1)]
    /\ run = "running"
    /\ sends = 0

dev == Dev(partitions, changes)

LoadedRanges == {b \in (1..DevLen) \X (1..DevLen) : b[1] <= b[2]}
LoadedLayouts ==
    UNION {{l \in [1..n -> LoadedRanges] : \A k \in 1..(n - 1) : l[k][2] < l[k + 1][1]}
           : n \in 0..MaxLoaded}

\* Device::from_libparted
Init ==
    /\ \E l \in LoadedLayouts :
          /\ partitions = [k \in 1..Len(l) |-> from_libparted(l[k])]
          /\ loaded = [k \in 1..Len(l) |-> from_libparted(l[k])]
    /\ changes = <<>>
    /\ raw = [calls |-> <<>>, table |-> <<>>, writes |-> 0]
    /\ panicked = FALSE
    /\ commits = 0
    /\ mutations = 0
    /\ onlyMutations = TRUE
    /\ last = [op |-> "open", out |-> Out("Ok", "", 0 - 1)]
    /\ prevOp = "none"
    /\ AppStart(0 - 1)
    /\ TuiStart(0 - 1)
    /\ mounts = {}

Mutations == {"change_partition_name", "new_partition", "remove_partition", "resize_partition"}

\* the effect of a call on the Device
StepDev(op, r) ==
    /\ partitions' = r.partitions
    /\ changes' = r.changes
    /\ panicked' = (r.out.tag = "Panic")
    /\ last' = [op |-> op, out |-> r.out]
    /\ prevOp' = last.op
    /\ mutations' = IF op \in Mutations /\ r.out.tag = "Ok" THEN mutations + 1 ELSE mutations
    /\ onlyMutations' = (onlyMutations /\ op \in Mutations /\ r.out.tag # "Panic")
    /\ UNCHANGED <<loaded, commits>>
    /\ UNCHANGED appVars
    /\ UNCHANGED tuiVars

\* a call that does not use the driver
Step(op, r) == StepDev(op, r) /\ UNCHANGED raw

VisibleIdx == 0..(Len(partitions_enum(partitions)) - 1)

ChangePartitionName ==
    /\ ~panicked
    /\ mutations < MaxMutations
    /\ \E i \in VisibleIdx, nw \in Names :
          Step("change_partition_name", change_partition_name(dev, i, nw))

\* mutant: an accepted new_partition is applied to the driver at once
NewPartition_WriteThrough ==
    /\ ~panicked
    /\ mutations < MaxMutations
    /\ \E nm \in NewNames, f \in FileSystems, rb \in RangeArgs :
          LET r == new_partition(dev, nm, f, rb)
          IN /\ StepDev("new_partition", r)
             /\ raw' = IF r.out.tag = "Ok"
                       THEN [raw EXCEPT !.table = Append(@, apply(Last(r.changes)))]
                       ELSE raw

NewPartition ==
    /\ ~panicked
    /\ mutations < MaxMutations
    /\ \E nm \in NewNames, f \in FileSystems, rb \in RangeArgs :
          Step("new_partition", new_partition(dev, nm, f, rb))

RemovePartition ==
    /\ ~panicked
    /\ mutations < MaxMutations
    /\ \E i \in VisibleIdx : Step("remove_partition", remove_partition(dev, i))

ResizePartition ==
    /\ ~panicked
    /\ mutations < MaxMutations
    /\ \E i \in VisibleIdx, rb \in ResizeArgs :
          Step("resize_partition", resize_partition(dev, i, rb))

UndoChange ==
    /\ ~panicked
    /\ Step("undo_change", undo_change(dev))

UndoAllChanges ==
    /\ ~panicked
    /\ Step("undo_all_changes", undo_all_changes(dev))

Commit ==
    /\ ~panicked
    /\ commits < MaxCommits
    /\ \E fail \in (0 - 1)..(Len(changes) + 2) :
          LET r == commit(dev, raw, fail)
          IN /\ partitions' = r.dev.partitions
             /\ changes' = r.dev.changes
             /\ raw' = r.raw
             /\ panicked' = FALSE
             /\ last' = [op |-> "commit", out |-> r.dev.out]
             /\ prevOp' = last.op
             /\ commits' = commits + 1
             /\ onlyMutations' = FALSE
             /\ UNCHANGED <<loaded, mutations>>
             /\ UNCHANGED appVars
             /\ UNCHANGED tuiVars

\* the staging engine: every operation of Device but commit
Next ==
    \/ ChangePartitionName
    \/ NewPartition
    \/ RemovePartition
    \/ ResizePartition
    \/ UndoChange
    \/ UndoAllChanges

Spec == Init /\ [][Next]_vars

\* the staging engine and commit, on the devices with few partitions
InitCommit == Init /\ Len(loaded) <= MaxLoadedCommit

NextCommit ==
    \/ ChangePartitionName
    \/ NewPartition
    \/ RemovePartition
    \/ ResizePartition
    \/ UndoChange
    \/ UndoAllChanges
    \/ Commit

SpecCommit == InitCommit /\ [][NextCommit]_vars

\* ---- the channel-based application as a state machine ----

Keys == {Key(c, FALSE) : c \in {"Esc", "Up", "Down", "Backspace", "Enter"} \cup KeyChars}
        \cup {Key("z", TRUE), Key("s", TRUE)}

\* update on a terminal key event. n_changes -= 1 at 0 panics in a debug
\* build and wraps around in a release build.
KeyEvent ==
    /\ run = "running"
    /\ \E key \in Keys, build \in {"debug", "release"} :
          LET r == update_key(state, key)
              typed == state.mode.kind = "Partitions" /\ state.mode.temp_name # <<>>
                       /\ key.code \in KeyChars
          IN /\ typed => Len(state.mode.temp_name[1]) < MaxNameLen
             /\ r.sent # <<>> => sends < MaxActions
             /\ r.out # "underflow" => build = "debug"
             /\ IF r.out = "panic" \/ (r.out = "underflow" /\ build = "debug")
                THEN /\ run' = "panic"
                     /\ UNCHANGED <<state, tx_actions, sends>>
                ELSE /\ run' = IF r.out = "quit" THEN "quit" ELSE run
                     /\ state' = IF r.out = "underflow"
                                 THEN [r.state EXCEPT !.n_changes = usize_MAX] ELSE r.state
                     /\ tx_actions' = tx_actions \o r.sent
                     /\ sends' = sends + Len(r.sent)
    /\ UNCHANGED <<tx_messages, worker, devices>>
    /\ UNCHANGED devVars
    /\ UNCHANGED tuiVars

\* update on a Message of the worker
MessageEvent ==
    /\ run = "running"
    /\ tx_messages # <<>>
    /\ LET r == update_message(state, Head(tx_messages))
       IN /\ run' = IF r.out = "panic" THEN "panic" ELSE run
          /\ state' = r.state
    /\ tx_messages' = Tail(tx_messages)
    /\ UNCHANGED <<tx_actions, worker, devices, sends>>
    /\ UNCHANGED devVars
    /\ UNCHANGED tuiVars

\* the worker receives the next Action; after Task::Quit it goes on until
\* the channel is empty
WorkerReceive ==
    /\ run \in {"running", "quit"}
    /\ tx_actions # <<>>
    /\ \E io \in [found : BOOLEAN, ok : BOOLEAN] :
          LET r == worker_receive(worker, devices, Head(tx_actions), io)
          IN /\ worker' = r.worker
             /\ devices' = r.devices
             /\ tx_messages' = tx_messages \o r.msgs
             /\ run' = IF r.panic THEN "panic" ELSE run
    /\ tx_actions' = Tail(tx_actions)
    /\ UNCHANGED <<state, sends>>
    /\ UNCHANGED devVars
    /\ UNCHANGED tuiVars

InitApp ==
    /\ partitions = <<>> /\ loaded = <<>> /\ changes = <<>>
    /\ raw = [calls |-> <<>>, table |-> <<>>, writes |-> 0]
    /\ panicked = FALSE /\ commits = 0 /\ mutations = 0 /\ onlyMutations = TRUE
    /\ last = [op |-> "open", out |-> Out("Ok", "", 0 - 1)]
    /\ prevOp = "none"
    /\ \E specified \in (0 - 1)..(NDisks - 1) : AppStart(specified)
    /\ TuiStart(0 - 1)
    /\ mounts = {}

NextApp ==
    \/ KeyEvent
    \/ MessageEvent
    \/ WorkerReceive

SpecApp == InitApp /\ [][NextApp]_vars

\* ---- the terminal interface as a state machine ----

TuiKeys == {Key(c, FALSE) : c \in {"Esc", "Enter", "Delete", "Up", "Down", "Backspace", "q"}
                                  \cup TypedChars}
           \cup {Key("z", TRUE)}

\* update on a terminal key event, and view when update asks for a draw. A
\* negative quantity multiplied as u64 panics in a debug build and wraps
\* around in a release build.
TuiKeyEvent ==
    /\ run = "running"
    /\ keys < MaxKeys
    /\ keys' = keys + 1
    /\ \E key \in TuiKeys, build \in {"debug", "release"} :
       \E r \in {tui_update(tui, dev, mounts, key)} :
       \E drawn \in {IF r.redraw /\ r.out \in {"none", "overflow"}
                      THEN tui_view(r.state, r.dev)
                      ELSE [state |-> r.state, panic |-> FALSE, overflow |-> FALSE]} :
          LET over == r.out = "overflow" \/ drawn.overflow
              crash == r.out = "panic" \/ drawn.panic \/ (over /\ build = "debug")
              accepted == {k \in 1..Len(r.calls) :
                              r.calls[k].fn \in Mutations /\ r.calls[k].out.tag = "Ok"}
          IN /\ ~over => build = "debug"
             /\ mutations + Cardinality(accepted) <= MaxMutations
             /\ r.state.input # <<>> => Len(r.state.input[1]) <= MaxInput
             /\ r.state.selected_partition # <<>>
                   => r.state.selected_partition[1].new.bounds[1] \in InSectors
             /\ run' = IF crash THEN "panic" ELSE IF r.out = "quit" THEN "quit" ELSE run
             /\ panicked' = crash
             /\ tui' = IF crash THEN tui ELSE drawn.state
             /\ partitions' = r.dev.partitions
             /\ changes' = r.dev.changes
             /\ mutations' = mutations + Cardinality(accepted)
             /\ onlyMutations' = (onlyMutations /\ \A k \in 1..Len(r.calls) :
                                                      r.calls[k].fn \in Mutations)
             /\ last' = IF r.calls = <<>> THEN last
                        ELSE [op |-> Last(r.calls).fn, out |-> Last(r.calls).out]
             /\ prevOp' = IF r.calls = <<>> THEN prevOp ELSE last.op
    /\ UNCHANGED <<raw, loaded, commits, mounts>>
    /\ UNCHANGED <<state, tx_actions, tx_messages, worker, devices, sends>>

\* Device::get_all finds one device; any of its partitions may be mounted
InitTui ==
    /\ \E l \in LoadedLayouts :
          /\ partitions = [k \in 1..Len(l) |-> from_libparted(l[k])]
          /\ loaded = [k \in 1..Len(l) |-> from_libparted(l[k])]
          /\ mounts \in {m \in SUBSET {l[k] : k \in 1..Len(l)} : Cardinality(m) <= MaxMounted}
    /\ changes = <<>>
    /\ raw = [calls |-> <<>>, table |-> <<>>, writes |-> 0]
    /\ panicked = FALSE /\ commits = 0 /\ mutations = 0 /\ onlyMutations = TRUE
    /\ last = [op |-> "open", out |-> Out("Ok", "", 0 - 1)]
    /\ prevOp = "none"
    /\ AppStart(0 - 1)
    /\ TuiStart(0 - 1)

NextTui == TuiKeyEvent

SpecTui == InitTui /\ [][NextTui]_vars

\* ---- properties ----

Sectors(b) == b[1]..b[2]
Intersects(a, b) == Sectors(a) \cap Sectors(b) # {}
Visible == partitions_of(partitions)

\* a range of sectors of the device that no visible partition covers
InFreeSpace(b) ==
    /\ 1 <= b[1] /\ b[1] <= b[2] /\ b[2] <= DevLen
    /\ \A k \in 1..Len(Visible) : ~Intersects(b, bounds(Visible[k]))

\* k undo_change calls in a row
RECURSIVE UndoN(_, _)
UndoN(r, k) ==
    IF k = 0 \/ r.out.tag = "Panic" THEN r
    ELSE UndoN(undo_change(Dev(r.partitions, r.changes)), k - 1)

\* C1: in every state reached by accepted mutations and undo_change calls,
\* the visible list is sorted by start sector and its bounds are pairwise
\* disjoint.
C1_VisibleSortedDisjoint ==
    ~panicked =>
        \A j, k \in 1..Len(Visible) :
            j < k => /\ start(Visible[j]) < start(Visible[k])
                     /\ ~Intersects(bounds(Visible[j]), bounds(Visible[k]))

\* C2: a step of any operation other than commit leaves the driver, and with
\* it the partition table on the device, as it was.
C2_OnlyCommitWrites == [][last'.op # "commit" => raw' = raw]_vars

C2_Witness ==
    /\ raw.table # <<>>
    /\ last.op = "new_partition"
    /\ last.out.tag = "Ok"

\* C3: from every reachable state, new_partition accepted for a range inside
\* free space and followed at once by undo_change leaves the Layout List
\* equal by value to the list before the two calls.
C3_NewThenUndoRestores ==
    ~panicked =>
        \A nm \in NewNames, f \in FileSystems, rb \in RangeArgs :
            LET r1 == new_partition(dev, nm, f, rb)
                r2 == undo_change(Dev(r1.partitions, r1.changes))
            IN (InFreeSpace(normalize(rb)) /\ r1.out.tag = "Ok")
                   => r2.partitions = partitions

\* C4: from every reachable state and for every visible index i,
\* remove_partition(i) followed at once by undo_change returns the undone
\* change and leaves the Layout List and the Change Log as before the two
\* calls.
C4_RemoveThenUndoRestores ==
    ~panicked =>
        \A i \in VisibleIdx :
            LET r1 == remove_partition(dev, i)
                r2 == undo_change(Dev(r1.partitions, r1.changes))
            IN /\ r1.out.tag = "Ok"
               /\ r2.out.tag = "Some"
               /\ r2.partitions = partitions
               /\ r2.changes = changes

C4_Witness ==
    /\ prevOp = "remove_partition"
    /\ last.op = "undo_change"
    /\ last.out.tag = "Some"
    /\ last.out.change = "RemovePartition"
    /\ Len(partitions) >= 2
    /\ partitions[1].kind = "Hidden"
    /\ Visible[last.out.index + 1].kind = "Real"

\* C5: after k accepted mutations on a loaded device and nothing else, k
\* undo_change calls in a row leave the Layout List as loaded and the Change
\* Log empty.
C5_UndoIsLifoInverse ==
    (onlyMutations /\ ~panicked) =>
        LET r == UndoN(Result(partitions, changes, Out("Ok", "", 0 - 1)), mutations)
        IN /\ r.out.tag # "Panic"
           /\ r.partitions = loaded
           /\ n_changes(r.changes) = 0

\* C6: in every state reached without commit, undo_all_changes leaves the
\* Change Log empty and the Layout List equal to the loaded one: the loaded
\* entries in the loaded order, all Real, all histories empty.
C6_UndoAllRestoresLoaded ==
    ~panicked =>
        LET r == undo_all_changes(dev)
        IN r.changes = <<>> /\ r.partitions = loaded

C6_Witness ==
    /\ last.op = "undo_all_changes"
    /\ prevOp = "undo_change"
    /\ mutations = MaxMutations
    /\ loaded # <<>>
    /\ partitions = loaded
    /\ changes = <<>>

\* C7: undo_all_changes twice in a row leaves the Layout List and the Change
\* Log as undo_all_changes once leaves them.
C7_UndoAllIdempotent ==
    ~panicked =>
        LET r1 == undo_all_changes(dev)
            r2 == undo_all_changes(Dev(r1.partitions, r1.changes))
        IN r2.partitions = r1.partitions /\ r2.changes = r1.changes

C7_Witness ==
    /\ last.op = "undo_all_changes"
    /\ prevOp = "undo_all_changes"
    /\ mutations = MaxMutations
    /\ loaded # <<>>

\* C8: a new_partition or resize_partition call that returns OverlapsExisting
\* or OutOfBounds leaves the Layout List and the Change Log as they were.
C8_ErrorLeavesModel ==
    [][last'.out.tag \in {"OverlapsExisting", "OutOfBounds"}
           => (partitions' = partitions /\ changes' = changes)]_vars

C8_Witness ==
    /\ last.op = "new_partition"
    /\ last.out.tag = "OverlapsExisting"
    /\ prevOp = "resize_partition"
    /\ changes # <<>>

\* C9: whenever new_partition returns Ok, the normalised range intersects the
\* current bounds of no partition that was visible before the call.
C9_NewOnlyInFreeSpace ==
    ~panicked =>
        \A nm \in NewNames, f \in FileSystems, rb \in RangeArgs :
            new_partition(dev, nm, f, rb).out.tag = "Ok"
                => \A k \in 1..Len(Visible) :
                       ~Intersects(normalize(rb), bounds(Visible[k]))

\* C10: new_partition returns Ok for every range that lies inside free space.
C10_NewInFreeSpaceSucceeds ==
    ~panicked =>
        \A nm \in NewNames, f \in FileSystems, rb \in RangeArgs :
            InFreeSpace(normalize(rb)) => new_partition(dev, nm, f, rb).out.tag = "Ok"

\* C11: after new_partition(b) returns Ok for a range b inside a free run
\* [s, e] of the layout partitions_with_empty reports, the layout has in place
\* of that run, in order, free [s, b.start - 1] if non-empty, the new Virtual
\* partition with bounds b, free [b.end + 1, e] if non-empty, and every other
\* entry is where it was
C11_NewSplitsFreeRun ==
    (~panicked /\ ~partitions_with_empty(partitions).panic) =>
        LET L == partitions_with_empty(partitions).list
        IN \A k \in 1..Len(L), nm \in NewNames, f \in FileSystems, rb \in RangeArgs :
              LET b == normalize(rb)
                  g == L[k].range
                  r == new_partition(dev, nm, f, rb)
                  pieces == (IF g[1] <= b[1] - 1 THEN <<Right(g[1], b[1] - 1)>> ELSE <<>>)
                            \o <<Left(new(nm, b, f))>>
                            \o (IF b[2] + 1 <= g[2] THEN <<Right(b[2] + 1, g[2])>> ELSE <<>>)
              IN (/\ L[k].either = "Right"
                  /\ g[1] <= b[1] /\ b[1] <= b[2] /\ b[2] <= g[2]
                  /\ r.out.tag = "Ok")
                 => partitions_with_empty(r.partitions)
                      = [panic |-> FALSE,
                         list |-> SubSeq(L, 1, k - 1) \o pieces \o SubSeq(L, k + 1, Len(L))]

\* C12: when the range requested from new_partition intersects a visible
\* partition, new_partition returns OverlapsExisting(i), i the index of the
\* first visible partition the range intersects (its position among the
\* visible partitions or in the list), and leaves the list and the log alone
C12_OverlapNamesFirst ==
    ~panicked =>
        \A nm \in NewNames, f \in FileSystems, rb \in RangeArgs :
            LET b == normalize(rb)
                r == new_partition(dev, nm, f, rb)
                hit == {k \in 1..Len(Visible) : Intersects(b, bounds(Visible[k]))}
                first == CHOOSE k \in hit : \A j \in hit : k <= j
            IN hit # {} =>
                  /\ r.out.tag = "OverlapsExisting"
                  /\ r.out.index \in {first - 1, partitions_enum(partitions)[first]}
                  /\ r.partitions = partitions
                  /\ r.changes = changes

\* the entries of the list that are not Virtual, with their kinds
NotVirtual(parts) == retain_not_virtual(parts)

\* C13: when undo_change processes a NewPartition record, the entry at the
\* recorded index is Virtual (the assertion holds), that entry is the only
\* one removed, and no Real entry is removed or marked Hidden
C13_UndoNewKeepsReal ==
    (~panicked /\ changes # <<>> /\ Last(changes).type = "NewPartition") =>
        LET c == Last(changes)
            r == undo_change(dev)
        IN /\ c.index < Len(partitions)
           /\ At(partitions, c.index).kind = "Virtual"
           /\ r.partitions = RemoveAt(partitions, c.index)
           /\ NotVirtual(r.partitions) = NotVirtual(partitions)

\* C14: from every state with n_changes() = n > 0, whatever the variant of the
\* most recent record, an undo_change that returns leaves n_changes() = n - 1
\* and the first n - 1 records of the log
C14_UndoPopsOne ==
    (~panicked /\ changes # <<>>) =>
        LET r == undo_change(dev)
        IN r.out.tag # "Panic" =>
              /\ n_changes(r.changes) = n_changes(changes) - 1
              /\ r.changes = Pop(changes)

\* C15: undo_change on an empty log returns None without panicking and leaves
\* the list and the empty log as they are
C15_UndoOnEmptyIsNoop ==
    (~panicked /\ changes = <<>>) =>
        LET r == undo_change(dev)
        IN /\ r.out.tag = "None"
           /\ r.partitions = partitions
           /\ r.changes = <<>>

\* an undo_change that found the log empty, after one that emptied it
C15_Witness ==
    /\ ~panicked
    /\ prevOp = "undo_change"
    /\ last.op = "undo_change" /\ last.out.tag = "None"
    /\ changes = <<>> /\ partitions = loaded

\* C16: every call of change_partition_name, remove_partition, new_partition
\* or resize_partition that is accepted appends exactly one record:
\* n_changes() grows by one and the records before it are kept
C16_MutationAppendsOne ==
    [][(last'.op \in Mutations /\ last'.out.tag = "Ok")
          => /\ n_changes(changes') = n_changes(changes) + 1
             /\ Pop(changes') = changes]_vars

\* a second accepted mutation, a rename, on top of a logged one
C16_Witness ==
    /\ ~panicked
    /\ last.op = "change_partition_name" /\ last.out.tag = "Ok"
    /\ n_changes(changes) = 2
    /\ Last(changes).type = "Name" /\ changes[1].type # "Name"

\* C17: once every accepted mutation was taken back by as many undo_change
\* calls as there were accepted mutations, a commit makes no call on the
\* driver: no add, remove, resize or rename
C17_UndoneNotCommitted ==
    (~panicked /\ onlyMutations) =>
        LET r == UndoN(Result(partitions, changes, Out("Ok", "", 0 - 1)), mutations)
        IN r.out.tag # "Panic" =>
              \A fail \in (0 - 1)..(Len(r.changes) + 2) :
                  commit(Dev(r.partitions, r.changes), raw, fail).raw.calls = <<>>

\* C18: commit makes the driver calls of the log's records oldest first, each
\* record once and none after one that failed (none at all when the driver's
\* disk cannot be opened), and the driver writes to the disk only after the
\* call of the last record
C18_CommitReplaysInOrder ==
    [][(last'.op = "commit" /\ commits' = commits + 1)
          => LET all == [k \in 1..Len(changes) |-> apply(changes[k])]
             IN /\ \/ raw' = raw
                   \/ \E m \in 0..Len(all) : raw'.calls = SubSeq(all, 1, m)
                /\ raw'.writes # raw.writes
                      => (raw'.calls = all /\ raw'.table = raw.table \o all)
                /\ last'.out.tag = "Ok"
                      => (raw'.calls = all /\ raw'.writes = raw.writes + 1)]_vars

\* a commit that completed with two records of different kinds
C18_Witness ==
    /\ last.op = "commit" /\ last.out.tag = "Ok"
    /\ Len(raw.calls) = 2 /\ raw.calls[1].fn # raw.calls[2].fn
    /\ raw.table = raw.calls /\ raw.writes = 1

\* C19: when commit has returned, completed or with a driver error from
\* opening the driver's disk, from applying a record or from the final
\* write, the log is drained: n_changes() = 0
C19_CommitDrainsLog ==
    last.op = "commit" => n_changes(changes) = 0

\* C20: resize_partition on a valid index returns OutOfBounds exactly when
\* the normalised bounds start before sector 0 or end after the device's
\* length, whatever the neighbours of the partition are
C20_ResizeOutOfBounds ==
    ~panicked =>
        \A i \in VisibleIdx, s \in (0 - 1)..(DevLen + 1), e \in 0..(DevLen + 1) :
            LET rb == <<Bnd("Included", s), Bnd("Included", e)>>
            IN (s <= e + 1 /\ normalize(rb) = <<s, e>>) =>
                  (resize_partition(dev, i, rb).out.tag = "OutOfBounds"
                      <=> (s < 0 \/ e > DevLen))

\* a resize_partition refused as OutOfBounds on a list with a staged change
\* and several visible partitions
C20_Witness ==
    /\ ~panicked
    /\ last.op = "resize_partition" /\ last.out.tag = "OutOfBounds"
    /\ Len(Visible) >= 2 /\ changes # <<>>

\* the ranges inside the device that resize_partition is asked for
InDevice == {b \in (0..DevLen) \X (0..DevLen) : b[1] <= b[2]}
Incl(b) == <<Bnd("Included", b[1]), Bnd("Included", b[2])>>

\* C21: resize_partition returns OverlapsExisting only because of the
\* target's visible neighbours, the nearest non-Hidden entry before it ending
\* after the new start or the nearest non-Hidden entry after it starting
\* before the new end; a Hidden entry next to the target never causes it
C21_ResizeIgnoresHidden ==
    ~panicked =>
        \A i \in VisibleIdx, b \in InDevice :
            resize_partition(dev, i, Incl(b)).out.tag = "OverlapsExisting"
               => \/ i >= 1 /\ end(Visible[i]) > b[1]
                  \/ i + 2 <= Len(Visible) /\ start(Visible[i + 2]) < b[2]

\* C22: resize_partition(i, b) with b inside the device and starting before
\* the end of the visible partition preceding partition i returns
\* OverlapsExisting(i - 1), the visible index of that partition, and leaves
\* every entry and the log as they are
C22_ResizeNamesPrevious ==
    ~panicked =>
        \A i \in VisibleIdx, b \in InDevice :
            (i >= 1 /\ b[1] < end(Visible[i]))
               => LET r == resize_partition(dev, i, Incl(b))
                  IN /\ r.out.tag = "OverlapsExisting"
                     /\ r.out.index = i - 1
                     /\ r.partitions = partitions
                     /\ r.changes = changes

C24_EditThenUndoRestores ==
    [][(last'.op \in {"change_partition_name", "resize_partition"} /\ last'.out.tag = "Ok")
          => LET r == undo_change(Dev(partitions', changes'))
             IN /\ r.out.tag = "Some"
                /\ r.out.change = (IF last'.op = "resize_partition"
                                   THEN "ResizePartition" ELSE "Name")
                /\ r.partitions = partitions
                /\ r.changes = changes]_vars

\* a resize, the only accepted mutation, taken back by the next call
C24_Witness ==
    /\ ~panicked
    /\ prevOp = "resize_partition" /\ mutations = 1
    /\ last.op = "undo_change" /\ last.out.tag = "Some"
    /\ last.out.change = "ResizePartition"
    /\ changes = <<>> /\ partitions = loaded

\* the visible list v is sorted by start sector, its bounds valid and
\* pairwise disjoint
SortedDisjoint(v) ==
    /\ \A k \in 1..Len(v) : start(v[k]) <= end(v[k])
    /\ \A k \in 1..(Len(v) - 1) : end(v[k]) < start(v[k + 1])

\* the partitions of v from the k-th on, each followed by the run of
\* uncovered sectors after it, up to the end of the device
RECURSIVE WithRuns(_, _)
WithRuns(v, k) ==
    IF k > Len(v) THEN <<>>
    ELSE LET upto == IF k < Len(v) THEN start(v[k + 1]) - 1 ELSE DevLen
         IN <<Left(v[k])>>
            \o (IF end(v[k]) + 1 <= upto THEN <<Right(end(v[k]) + 1, upto)>> ELSE <<>>)
            \o WithRuns(v, k + 1)

\* C25: with at least one visible partition and a sorted, non-overlapping
\* visible list, partitions_with_empty yields the visible partitions in order
\* with one range for every maximal run of uncovered sectors: [1, first.start
\* - 1], [left.end + 1, right.start - 1], [last.end + 1, device length]
C25_GapsExact ==
    (~panicked /\ Visible # <<>> /\ SortedDisjoint(Visible)) =>
        partitions_with_empty(partitions)
           = [panic |-> FALSE,
              list |-> (IF start(Visible[1]) > 1
                        THEN <<Right(1, start(Visible[1]) - 1)>> ELSE <<>>)
                       \o WithRuns(Visible, 1)]

\* C26: with no visible partition, none loaded or all removed,
\* partitions_with_empty yields one range that covers the whole device
C26_EmptyDeviceIsOneRun ==
    (~panicked /\ Visible = <<>>) =>
        LET r == partitions_with_empty(partitions)
        IN /\ ~r.panic
           /\ Len(r.list) = 1
           /\ r.list[1].either = "Right"
           /\ r.list[1].range \in {<<0, DevLen>>, <<1, DevLen>>}

\* C27: in every reachable state the current bounds of every visible entry
\* are a valid range inside the device: 0 <= start <= end <= device length
C27_BoundsInsideDevice ==
    ~panicked =>
        \A k \in 1..Len(Visible) :
            /\ 0 <= start(Visible[k])
            /\ start(Visible[k]) <= end(Visible[k])
            /\ end(Visible[k]) <= DevLen

\* the loaded bounds of the entries that are Hidden
HiddenBounds(parts) == {parts[k].bounds[1] : k \in {j \in 1..Len(parts) : parts[j].kind = "Hidden"}}

\* the partitions among the entries partitions_with_empty yields
LeftsOf(list) ==
    LET ks == {k \in 1..Len(list) : list[k].either = "Left"}
        F[k \in 0..Len(list)] ==
            IF k = 0 THEN <<>>
            ELSE IF k \in ks THEN Append(F[k - 1], list[k].partition[1]) ELSE F[k - 1]
    IN F[Len(list)]

\* remove_partition(i) in the current state: partitions() loses its i-th
\* element and nothing else; a Virtual target leaves the list and is carried
\* in the record, any other target stays in the list as Hidden with nothing
\* carried; partitions_with_empty() shows the same partitions
RemoveFrame(i) ==
    LET r == remove_partition(dev, i)
        target == Visible[i + 1]
        index == partitions_enum(partitions)[i + 1]
        pwe == partitions_with_empty(r.partitions)
    IN /\ r.out.tag = "Ok"
       /\ partitions_of(r.partitions) = RemoveAt(Visible, i)
       /\ r.changes = Append(changes, [type |-> "RemovePartition", index |-> index,
                                       removed |-> IF target.kind = "Virtual"
                                                   THEN <<target>> ELSE <<>>])
       /\ target.kind = "Virtual" => r.partitions = RemoveAt(partitions, index)
       /\ target.kind # "Virtual"
             => r.partitions = [partitions EXCEPT ![index + 1].kind = "Hidden"]
       /\ ~pwe.panic => LeftsOf(pwe.list) = RemoveAt(Visible, i)

\* C28: remove_partition(i) removes exactly the i-th visible partition from
\* view, a Virtual one from the list and into the record, another one marked
\* Hidden in place, and a Hidden partition comes back into view only by
\* undo_change or undo_all_changes
C28_RemoveHidesExactlyOne ==
    /\ [](~panicked => \A i \in VisibleIdx : RemoveFrame(i))
    /\ [][last'.op \notin {"undo_change", "undo_all_changes"}
             => HiddenBounds(partitions) \subseteq HiddenBounds(partitions')]_vars

\* a second removal, resolved past the entry the first one hid
C28_Witness ==
    /\ ~panicked
    /\ last.op = "remove_partition" /\ n_changes(changes) = 2
    /\ changes[1].type = "RemovePartition" /\ changes[1].index = 0
    /\ changes[2].type = "RemovePartition" /\ changes[2].index = 1
    /\ partitions[1].kind = "Hidden" /\ partitions[2].kind = "Hidden"
    /\ Len(Visible) = 1

\* C29: Action::Undo and Action::Commit are sent only when State.n_changes
\* is above 0, and State.n_changes never goes below 0 (never wraps around)
C29_UndoCommitGated ==
    [][/\ state'.n_changes \in 0..MaxActions
       /\ (Len(tx_actions') > Len(tx_actions)
           /\ Last(tx_actions').type \in {"Undo", "Commit"}) => state.n_changes > 0]_vars

\* an Undo sent when one change was pending, which leaves none
C29_Witness ==
    /\ run = "running"
    /\ tx_actions # <<>> /\ Last(tx_actions).type = "Undo"
    /\ state.n_changes = 0 /\ sends >= 2

\* C30: when applying the k-th record fails during commit, commit returns
\* the error with the calls of the k - 1 records before it made and no other:
\* no later record is applied and the driver does not write to the disk
C30_ApplyErrorStopsCommit ==
    [][(/\ last'.op = "commit" /\ commits' = commits + 1
        /\ last'.out.tag = "IoError"
        /\ last'.out.index \in 1..Len(changes))
          => /\ raw'.calls = [k \in 1..(last'.out.index - 1) |-> apply(changes[k])]
             /\ raw'.writes = raw.writes
             /\ raw'.table = raw.table]_vars

\* a commit of two accepted mutations whose first record failed
C30_Witness ==
    /\ last.op = "commit" /\ last.out.tag = "IoError" /\ last.out.index = 1
    /\ prevOp \in Mutations /\ mutations = 2
    /\ raw.calls = <<>> /\ raw.writes = 0 /\ changes = <<>>

\* C31: resize_partition on a target with no entry after it in the list, the
\* last or the only partition, with bounds inside the device that start at or
\* after the end of the entry before it, returns Ok and does not panic
C31_ResizeLastOk ==
    ~panicked =>
        \A i \in VisibleIdx, b \in InDevice :
            LET index == partitions_enum(partitions)[i + 1]
            IN (/\ index + 1 = Len(partitions)
                /\ (index = 0 \/ end(At(partitions, index - 1)) <= b[1]))
                  => resize_partition(dev, i, Incl(b)).out.tag = "Ok"

\* C32: in every state reached through accepted new_partition,
\* resize_partition, remove_partition and undo_change calls, the assertion of
\* partitions_with_empty holds: of two consecutive visible partitions the
\* right one starts after the end of the left one, so the call never panics
\* with 'overlapping partitions'
C32_GapsNeverPanic ==
    ~panicked => ~partitions_with_empty(partitions).panic

\* C33: after every sequence of accepted mutations, undo_change meets no
\* internal violation: neither assertion fails, no list index is out of range
\* and get_public_index finds the recorded index among the visible entries,
\* also when the creation of the only or the last partition is undone
C33_UndoNeverPanics ==
    (~panicked /\ onlyMutations) => undo_change(dev).out.tag # "Panic"

\* C34: change_partition_name(i, name) takes i as the position among the
\* visible partitions, as partitions(), remove_partition and resize_partition
\* do: after the call the i-th visible partition has that name and the name
\* history of no other entry, visible or Hidden, has changed, also when
\* Hidden entries come before the target in the list
C34_RenameByVisibleIndex ==
    ~panicked =>
        \A i \in VisibleIdx, nw \in Names :
            LET r == change_partition_name(dev, i, nw)
                index == partitions_enum(partitions)[i + 1]
            IN /\ r.out.tag = "Ok"
               /\ Len(r.partitions) = Len(partitions)
               /\ name(partitions_of(r.partitions)[i + 1]) = nw
               /\ \A k \in 1..Len(partitions) :
                     k # index + 1 => r.partitions[k].name = partitions[k].name

\* C35: once the worker has received every Action sent so far, the number of
\* pending changes the UI counts, State.n_changes, is the length of the
\* worker's changes list
C35_CounterAgreesWithLog ==
    (run # "panic" /\ tx_actions = <<>>) => state.n_changes = Len(worker.changes)

\* the worker has caught up with every Action sent and one rename is pending
C35_Witness ==
    /\ run = "running" /\ tx_actions = <<>> /\ sends = MaxActions
    /\ state.n_changes = 1 /\ Len(worker.changes) = 1
    /\ worker.disk # <<>> /\ worker.disk[1].named # {}

\* C36: pending changes stay with the disk they were made on: when the
\* worker, on an Undo, writes the previous name of the latest pending change,
\* or, on a Commit, commits its open disk, that disk is the one the UI showed
\* when each change concerned was sent, also after another disk was selected
\* while changes were pending
C36_ChangesStayWithDisk ==
    [][(/\ tx_actions # <<>> /\ tx_actions' = Tail(tx_actions)
        /\ Head(tx_actions).type \in {"Undo", "Commit"}
        /\ run' # "panic" /\ tx_messages' = tx_messages
        /\ worker.disk # <<>>)
          => \A k \in 1..Len(worker.changes) :
                (Head(tx_actions).type = "Commit" \/ k = Len(worker.changes))
                   => worker.changes[k].on = worker.disk[1].index]_vars

\* C37: whatever the interleaving of key events with the worker's
\* Message::Partitions, the key handler of the Partitions mode never indexes
\* state.partitions out of range: no key, 'l' included, panics when it
\* arrives after the mode was switched and before the list was delivered
C37_KeysIndexInRange ==
    (run = "running" /\ state.mode.kind = "Partitions")
        => \A key \in Keys : update_key(state, key).out # "panic"

\* C39: at commit, the records that refer to one layout index address one
\* driver partition: for every index i the calls made for a
\* RemovePartition{index: i}, a ResizePartition{index: i} and a
\* Name{partition: i} record carry the same partition number
C39_SameIndexSamePartition ==
    ~panicked =>
        LET calls == commit(dev, raw, 0 - 1).raw.calls
            At_(c) == IF c.type = "Name" THEN c.partition ELSE c.index
            On == {"Name", "RemovePartition", "ResizePartition"}
        IN /\ Len(calls) = Len(changes)
           /\ \A j, k \in 1..Len(changes) :
                 (/\ changes[j].type \in On /\ changes[k].type \in On
                  /\ At_(changes[j]) = At_(changes[k]))
                    => calls[j].num = calls[k].num

\* C38: the terminal interface never stages a mutation against a mounted
\* partition: whatever keys were pressed before, Ctrl+z with the pane of a
\* partition open included, every change_partition_name, resize_partition
\* and remove_partition call a key makes addresses a partition that has no
\* mount point
C38_NoMutationOnMounted ==
    run = "running" =>
        \A key \in TuiKeys :
            LET calls == tui_update(tui, dev, mounts, key).calls
            IN \A k \in 1..Len(calls) :
                  calls[k].fn \in {"change_partition_name", "resize_partition",
                                   "remove_partition"}
                     => ~mounted(calls[k].target, mounts)

====
